---- MODULE Spec2Model ----
(***************************************************************************)
(* SIMGuard Central (backend/main.py): the in-memory state dict, the       *)
(* ConnectionManager, the REST handlers, the /ws endpoint and the          *)
(* background simulator, as asyncio tasks on one event loop.  A task runs  *)
(* without interruption from one await to the next; every action below is  *)
(* one such run.  `await ws.send_json(m)` serialises m and hands it to the *)
(* channel at the call (or raises), and then suspends the caller.          *)
(*                                                                         *)
(* Abstractions: timestamps (now_iso) are dropped; a uuid4 is a fresh      *)
(* number taken from nextId, so that ids also order entries by creation;   *)
(* the f-string texts are kept as their template, with the interpolated    *)
(* number beside it in the field number; sim ids are written as numbers    *)
(* ("sim-0825550101" is 825550101).                                        *)
(***************************************************************************)
EXTENDS Integers, Sequences, FiniteSets, TLC

\* ---------------------------------------------------------------- bounds
\* websockets that ever connect
MaxWs == 2
\* request handlers that can be in progress at once
MaxTasks == 2
\* handler invocations and simulator wakes in one run
MaxOps == 2

\* ------------------------------------------------------------- constants
\* state["activity"][:200], state["alerts"][:200]
LogCap == 200
\* a sim id no record carries
UnknownSimId == 404

WS == 1 .. MaxWs
Tasks == 1 .. MaxTasks
Gen == 0
Procs == {Gen} \cup Tasks

\* sim ids the callers send
SimIdInputs == {825550101, 825550102, UnknownSimId}
ActionInputs == {"lock", "unlock", "bogus"}
RecoverySteps == {"freeze", "reset", "notify-bank", "open-case", "police"}
StepInputs == RecoverySteps \cup {"bogus"}
RiskTiers == {"Low", "Medium", "High"}
RegRisks == {"low", "medium", "high"}
NewNumbers == {"07100000000"}

VARIABLES
    sims,        \* state["sims"]
    registered,  \* state["registered"]
    alerts,      \* state["alerts"]
    activity,    \* state["activity"]
    active,      \* manager.active
    wpc,         \* websocket_endpoint(w): where the task stands
    chan,        \* the client's side of websocket w: "open", "closed" or "hung"
    inbox,       \* what client w has been sent, in order
    pc,          \* handler / simulator task: "idle", "send" (inside broadcast, to
                 \* be resumed) or "blocked" (in a send_json that does not complete)
    req,         \* the request a suspended handler is serving
    msgs,        \* the message being broadcast, then those still to broadcast
    rcpt,        \* broadcast: list(self.active), the list iterated
    idx,         \* broadcast: how many of rcpt have been sent to
    living,      \* broadcast: living
    callno,      \* the number of the broadcast call in progress
    nextId,      \* the next fresh uuid
    ops,         \* handler invocations and simulator wakes so far
    ncalls,      \* calls of manager.broadcast so far
    ret,         \* the response this step sends to a caller, NoRet if it sends none
    clean,       \* per task: no other task and no client has acted since its broadcast began
    newest       \* ids of the entries add_alert and add_log created last

store == <<sims, registered, alerts, activity>>
wsvars == <<wpc, chan, inbox>>
frame == <<pc, req, msgs, rcpt, idx, living, callno>>
ghost == <<ops, ncalls, newest>>
vars == <<sims, registered, alerts, activity, active, wpc, chan, inbox, pc, req,
          msgs, rcpt, idx, living, callno, nextId, ops, ncalls, ret, clean,
          newest>>

\* ---------------------------------------------------------------- values
NoRet == [none |-> TRUE]
NoReq == [cmd |-> "none", sim_id |-> 0, arg |-> ""]
LivePayload == [live |-> TRUE]

SeedSims ==
    << [id |-> 825550101, number |-> "082 555 0101", locked |-> TRUE,
        last |-> "No issues in 12h"],
       [id |-> 825550102, number |-> "082 555 0102", locked |-> FALSE,
        last |-> "Unlocked by user 2h ago"],
       [id |-> 812227788, number |-> "081 222 7788", locked |-> TRUE,
        last |-> "Auto-locked on risk spike"] >>

SeedRegistered ==
    << [id |-> 601239999, number |-> "060 123 9999", relation |-> "Unknown",
        risk |-> "high"],
       [id |-> 724001100, number |-> "072 400 1100", relation |-> "Old device",
        risk |-> "medium"],
       [id |-> 825550102, number |-> "082 555 0102", relation |-> "Primary",
        risk |-> "low"] >>

SeedAlerts ==
    << [id |-> 0, text |-> "System ready. Monitoring enabled.", level |-> "info",
        number |-> ""] >>

\* ------------------------------------------------------------ the helpers
Min(a, b) == IF a < b THEN a ELSE b

\* xs[:n]
Prefix(xs, n) == SubSeq(xs, 1, Min(Len(xs), n))

LogEntry(id, text, number) == [id |-> id, text |-> text, number |-> number]

AlertEntry(id, text, level, number) ==
    [id |-> id, text |-> text, level |-> level, number |-> number]

\* an add_log that never truncates
AddLogUncapped(log, id, text, number) == <<LogEntry(id, text, number)>> \o log

\* an add_log that loses the entry
AddLogDropped(log, id, text, number) == log

\* add_log: state["activity"] after the call
AddLog(log, id, text, number) ==
    Prefix(<<LogEntry(id, text, number)>> \o log, LogCap)

\* an add_alert that builds the entry and does not insert it
AddAlertSkipped(log, id, text, level, number) == log

\* add_alert: state["alerts"] after the call
AddAlert(log, id, text, level, number) ==
    Prefix(<<AlertEntry(id, text, level, number)>> \o log, LogCap)

\* a find_sim that falls back on the first record
FindSimOrFirst(ss, sim_id) ==
    IF \E i \in 1 .. Len(ss) : ss[i].id = sim_id
    THEN CHOOSE i \in 1 .. Len(ss) :
            /\ ss[i].id = sim_id
            /\ \A j \in 1 .. i - 1 : ss[j].id # sim_id
    ELSE 1

\* find_sim: the position of the first record with that id, 0 for None
FindSim(ss, sim_id) ==
    IF \E i \in 1 .. Len(ss) : ss[i].id = sim_id
    THEN CHOOSE i \in 1 .. Len(ss) :
            /\ ss[i].id = sim_id
            /\ \A j \in 1 .. i - 1 : ss[j].id # sim_id
    ELSE 0

\* get_sims: the response
GetSims(ss, rg, al, ac) ==
    [sims |-> ss, registered |-> rg, alerts |-> al, activity |-> ac]

\* an init event that carries the records and leaves the logs out
InitPayloadNoLogs(ss, rg, al, ac) ==
    [sims |-> ss, registered |-> rg, alerts |-> <<>>, activity |-> <<>>]

\* websocket_endpoint: the payload of the init event
InitPayload(ss, rg, al, ac) ==
    [sims |-> ss, registered |-> rg, alerts |-> al, activity |-> ac]

AlertMsg(entry) == [type |-> "alert", payload |-> entry]
StateMsg == [type |-> "state", payload |-> LivePayload]

\* a state event that carries the lists as seeded
RenderSeed(m, ss, rg) ==
    IF m.type = "state"
    THEN [type |-> "state", payload |-> [sims |-> SeedSims, registered |-> SeedRegistered]]
    ELSE m

\* what send_json serialises: the state event's payload holds the lists themselves
Render(m, ss, rg) ==
    IF m.type = "state"
    THEN [type |-> "state", payload |-> [sims |-> ss, registered |-> rg]]
    ELSE m

\* list.remove: drops the first occurrence
Remove(xs, x) ==
    IF \E i \in 1 .. Len(xs) : xs[i] = x
    THEN LET i == CHOOSE k \in 1 .. Len(xs) :
                     xs[k] = x /\ \A j \in 1 .. k - 1 : xs[j] # x
         IN SubSeq(xs, 1, i - 1) \o SubSeq(xs, i + 1, Len(xs))
    ELSE xs

Range(xs) == {xs[i] : i \in 1 .. Len(xs)}

\* an except clause that re-raises
ExceptClauseRaise == "raise"

\* broadcast's except clause: "pass" swallows the error of a send
ExceptClause == "pass"

\* a broadcast that keeps a websocket whose send failed
AfterSendKeepsAll(lv, w, ok) == Append(lv, w)

\* broadcast's loop body: living after the send to w
AfterSend(lv, w, ok) == IF ok THEN Append(lv, w) ELSE lv

\* the value a handler returns, read when it returns
Result(r, ss) ==
    CASE r.cmd = "action" ->
            [status |-> IF r.arg = "lock" THEN "locked" ELSE "unlocked",
             sim |-> ss[FindSim(ss, r.sim_id)]]
      [] r.cmd = "recovery" -> [ok |-> TRUE]
      [] OTHER -> [none |-> TRUE]

\* ------------------------------------------------------------------ Init
CleanFrame ==
    /\ pc = [p \in Procs |-> "idle"]
    /\ req = [p \in Procs |-> NoReq]
    /\ msgs = [p \in Procs |-> <<>>]
    /\ rcpt = [p \in Procs |-> <<>>]
    /\ idx = [p \in Procs |-> 0]
    /\ living = [p \in Procs |-> <<>>]
    /\ callno = [p \in Procs |-> 0]
    /\ clean = [p \in Procs |-> FALSE]

NoClients ==
    /\ active = <<>>
    /\ wpc = [w \in WS |-> "none"]
    /\ chan = [w \in WS |-> "open"]
    /\ inbox = [w \in WS |-> <<>>]

\* the module as loaded: the seeded state dict, an empty manager, no task running
Init ==
    /\ sims = SeedSims
    /\ registered = SeedRegistered
    /\ alerts = SeedAlerts
    /\ activity = <<>>
    /\ NoClients
    /\ CleanFrame
    /\ nextId = 1
    /\ ops = 0
    /\ ncalls = 0
    /\ ret = NoRet
    /\ newest = [alert |-> 0, log |-> 0]

\* The state after PreOps POST /recovery requests, step reset, for sim-0825550102,
\* served one after the other with no websocket connected: the alert log is full
\* and the activity log one entry short of it.
PreOps == LogCap - 1

InitFull ==
    /\ sims = SeedSims
    /\ registered = SeedRegistered
    /\ alerts = [k \in 1 .. PreOps |->
                    AlertEntry(2 * (PreOps - k) + 1,
                               "Recovery: password reset initiated for {number}", "warn",
                               "082 555 0102")] \o SeedAlerts
    /\ activity = [k \in 1 .. PreOps |->
                    LogEntry(2 * (PreOps - k) + 2, "Recovery reset triggered for {number}",
                             "082 555 0102")]
    /\ NoClients
    /\ CleanFrame
    /\ nextId = 2 * PreOps + 1
    /\ ops = 0
    /\ ncalls = 0
    /\ ret = NoRet
    /\ newest = [alert |-> 2 * PreOps - 1, log |-> 2 * PreOps]

\* ------------------------------------------------------------- broadcast
\* every task but the one running has been interleaved with
Touch(p) == [q \in Procs |-> q = p /\ clean[q]]

\* the event client w holds after a send of m by broadcast call c
Event(m, c) == [type |-> m.type, payload |-> m.payload, call |-> c]

\* ws.send_json(m): raises on a closed channel, never completes on a hung one
\* (the client has stopped reading and the transport's buffer is full), else the
\* client gets the event
SendOk(w) == chan[w] = "open"

SendFails(w) == chan[w] = "closed"

SendHangs(w) == chan[w] = "hung"

\* where the task stands after its call of send_json to w
Awaiting(w) == IF SendHangs(w) THEN "blocked" ELSE "send"

Sent(ib, w, m, c) ==
    IF SendOk(w) THEN [ib EXCEPT ![w] = Append(@, Event(m, c))] ELSE ib

\* the frame of a task that is not inside a handler
Idle(p) ==
    /\ pc' = [pc EXCEPT ![p] = "idle"]
    /\ req' = [req EXCEPT ![p] = NoReq]
    /\ msgs' = [msgs EXCEPT ![p] = <<>>]
    /\ rcpt' = [rcpt EXCEPT ![p] = <<>>]
    /\ idx' = [idx EXCEPT ![p] = 0]
    /\ living' = [living EXCEPT ![p] = <<>>]
    /\ callno' = [callno EXCEPT ![p] = 0]

\* a handler's return statement; the simulator loops back to its sleep
Respond(p, r, val) ==
    ret' = IF p = Gen THEN NoRet ELSE val

\* an exception leaves broadcast: the handler answers with an error, the
\* simulator task ends
Raise(p, r) ==
    /\ pc' = [pc EXCEPT ![p] = IF p = Gen THEN "dead" ELSE "idle"]
    /\ req' = [req EXCEPT ![p] = NoReq]
    /\ msgs' = [msgs EXCEPT ![p] = <<>>]
    /\ rcpt' = [rcpt EXCEPT ![p] = <<>>]
    /\ idx' = [idx EXCEPT ![p] = 0]
    /\ living' = [living EXCEPT ![p] = <<>>]
    /\ callno' = [callno EXCEPT ![p] = 0]
    /\ ret' = [exception |-> TRUE]

\* Task p, serving r, calls manager.broadcast(ms[1]) with self.active = act and
\* runs to its next suspension; Tail(ms) are the messages it broadcasts next, ss
\* and rg the lists as they stand.
\* With nobody to send to, broadcast never suspends: it sets self.active = [] and
\* returns, and so do the broadcasts after it.
Begin(p, r, ms, act, ss, rg) ==
    IF act = <<>>
    THEN /\ active' = <<>>
         /\ inbox' = inbox
         /\ ncalls' = ncalls + Len(ms)
         /\ clean' = [Touch(p) EXCEPT ![p] = FALSE]
         /\ Idle(p)
         /\ Respond(p, r, Result(r, ss))
    ELSE LET w == act[1]
             c == ncalls + 1
         IN /\ active' = act
            /\ ncalls' = c
            /\ clean' = [Touch(p) EXCEPT ![p] = TRUE]
            /\ inbox' = Sent(inbox, w, Render(ms[1], ss, rg), c)
            /\ IF SendFails(w) /\ ExceptClause # "pass"
               THEN Raise(p, r)
               ELSE /\ pc' = [pc EXCEPT ![p] = Awaiting(w)]
                    /\ req' = [req EXCEPT ![p] = r]
                    /\ msgs' = [msgs EXCEPT ![p] = ms]
                    /\ rcpt' = [rcpt EXCEPT ![p] = act]
                    /\ idx' = [idx EXCEPT ![p] = 1]
                    /\ living' = [living EXCEPT ![p] = AfterSend(<<>>, w, SendOk(w))]
                    /\ callno' = [callno EXCEPT ![p] = c]
                    /\ ret' = NoRet

\* Task p resumes inside broadcast after a send: the next send of the loop, or the
\* end of the loop (self.active = living) and what follows the call.
BroadcastStep(p) ==
    /\ pc[p] = "send"
    /\ UNCHANGED <<store, wpc, chan, nextId, ops, newest>>
    /\ IF idx[p] < Len(rcpt[p])
       THEN LET w == rcpt[p][idx[p] + 1]
            IN /\ inbox' = Sent(inbox, w, Render(msgs[p][1], sims, registered), callno[p])
               /\ active' = active
               /\ clean' = Touch(p)
               /\ ncalls' = ncalls
               /\ IF SendFails(w) /\ ExceptClause # "pass"
                  THEN Raise(p, req[p])
                  ELSE /\ idx' = [idx EXCEPT ![p] = @ + 1]
                       /\ living' = [living EXCEPT ![p] = AfterSend(@, w, SendOk(w))]
                       /\ pc' = [pc EXCEPT ![p] = Awaiting(w)]
                       /\ ret' = NoRet
                       /\ UNCHANGED <<req, msgs, rcpt, callno>>
       ELSE IF Len(msgs[p]) = 1
            THEN /\ active' = living[p]
                 /\ inbox' = inbox
                 /\ clean' = [Touch(p) EXCEPT ![p] = FALSE]
                 /\ ncalls' = ncalls
                 /\ Idle(p)
                 /\ Respond(p, req[p], Result(req[p], sims))
            ELSE Begin(p, req[p], Tail(msgs[p]), living[p], sims, registered)

\* --------------------------------------------------------- REST handlers
Invocation(cmd, sim_id, arg) == [cmd |-> cmd, sim_id |-> sim_id, arg |-> arg]

\* a request is served by the first task that is free
Free(t) == pc[t] = "idle" /\ \A u \in Tasks : u < t => pc[u] # "idle"

\* a handler that returns without an await: nothing but the response changes
Answer(t, r, val) ==
    /\ ret' = val
    /\ clean' = Touch(t)
    /\ UNCHANGED <<store, active, wsvars, frame, nextId, ncalls, newest>>

ErrNotFound == [error |-> "SIM not found"]
ErrUnknownAction == [error |-> "unknown action"]
ErrUnknownStep == [error |-> "unknown step"]

\* a take_action whose second branch is an else
KnownActionAny(action) == TRUE

\* take_action's if / elif: the actions it serves
KnownAction(action) == action \in {"lock", "unlock"}

\* take_action, the two branches: what they write to the record
\* an unlock branch that leaves the flag set
ActionLockedAlways(action) == TRUE

ActionLocked(action) == action = "lock"

ActionLast(action) ==
    IF action = "lock" THEN "Locked by user" ELSE "Unlocked by user"

ActionLogText(action) ==
    IF action = "lock" THEN "{number} locked via API" ELSE "{number} unlocked via API"

ActionAlertText(action) ==
    IF action = "lock" THEN "SIM {number} locked by user"
    ELSE "SIM {number} unlocked by user"

\* a take_action that raises every alert at level info
ActionLevelInfo(action) == "info"

ActionLevel(action) == IF action = "lock" THEN "info" ELSE "warn"

\* POST /action
TakeAction(t, sim_id, action) ==
    /\ Free(t)
    /\ ops < MaxOps
    /\ LET r == Invocation("action", sim_id, action)
           i == FindSim(sims, sim_id)
       IN /\ ops' = ops + 1
          /\ UNCHANGED <<wpc, chan>>
          /\ IF i = 0
             THEN Answer(t, r, ErrNotFound)
             ELSE IF KnownAction(action)
             THEN LET num == sims[i].number
                      alert == AlertEntry(nextId + 1, ActionAlertText(action),
                                          ActionLevel(action), num)
                  IN /\ sims' = [sims EXCEPT ![i].locked = ActionLocked(action),
                                             ![i].last = ActionLast(action)]
                     /\ activity' = AddLog(activity, nextId, ActionLogText(action), num)
                     /\ alerts' = AddAlert(alerts, nextId + 1, ActionAlertText(action),
                                           ActionLevel(action), num)
                     /\ registered' = registered
                     /\ nextId' = nextId + 2
                     /\ newest' = [alert |-> nextId + 1, log |-> nextId]
                     /\ Begin(t, r, <<AlertMsg(alert)>>, active, sims', registered')
             ELSE Answer(t, r, ErrUnknownAction)

\* recovery's if / elif chain: the steps it serves
KnownStep(step) == step \in RecoverySteps

\* a recovery in which every step locks the sim
StepLocksAll(step) == TRUE

\* recovery, per step: whether it locks the sim, and what it logs
StepLocks(step) == step = "freeze"

StepAlertText(step) ==
    CASE step = "freeze" -> "Recovery: SIM {number} frozen via wizard"
      [] step = "reset" -> "Recovery: password reset initiated for {number}"
      [] step = "notify-bank" -> "Recovery: bank partners notified for {number}"
      [] step = "open-case" -> "Recovery: Telco case opened for {number} (Ref #{ref})"
      [] step = "police" -> "Recovery: SAPS note generated for {number}"

StepLevel(step) ==
    CASE step = "freeze" -> "info"
      [] step = "reset" -> "warn"
      [] step = "notify-bank" -> "warn"
      [] step = "open-case" -> "danger"
      [] step = "police" -> "danger"

StepLogText(step) ==
    CASE step = "freeze" -> "Recovery freeze for {number}"
      [] step = "reset" -> "Recovery reset triggered for {number}"
      [] step = "notify-bank" -> "Recovery notify-bank for {number}"
      [] step = "open-case" -> "Recovery open-case for {number} ref {ref}"
      [] step = "police" -> "Recovery police note for {number}"

\* POST /recovery
Recovery(t, sim_id, step) ==
    /\ Free(t)
    /\ ops < MaxOps
    /\ LET r == Invocation("recovery", sim_id, step)
           i == FindSim(sims, sim_id)
       IN /\ ops' = ops + 1
          /\ UNCHANGED <<wpc, chan>>
          /\ IF i = 0
             THEN Answer(t, r, ErrNotFound)
             ELSE IF KnownStep(step)
             THEN LET num == sims[i].number
                      alert == AlertEntry(nextId, StepAlertText(step), StepLevel(step), num)
                  IN /\ sims' = IF StepLocks(step)
                                THEN [sims EXCEPT ![i].locked = TRUE]
                                ELSE sims
                     /\ alerts' = AddAlert(alerts, nextId, StepAlertText(step),
                                           StepLevel(step), num)
                     /\ activity' = AddLog(activity, nextId + 1, StepLogText(step), num)
                     /\ registered' = registered
                     /\ nextId' = nextId + 2
                     /\ newest' = [alert |-> nextId, log |-> nextId + 1]
                     /\ Begin(t, r, <<AlertMsg(alert)>>, active, sims', registered')
             ELSE Answer(t, r, ErrUnknownStep)

\* GET /risk/{sim_id}; tier is the draw of random.choices
RiskScore(t, sim_id, tier) ==
    /\ Free(t)
    /\ ops < MaxOps
    /\ LET r == Invocation("risk", sim_id, "")
           i == FindSim(sims, sim_id)
       IN /\ ops' = ops + 1
          /\ IF i = 0
             THEN Answer(t, r, ErrNotFound)
             ELSE Answer(t, r, [sim_id |-> sim_id, risk |-> tier])

\* GET /sims
GetSimsQuery(t) ==
    /\ Free(t)
    /\ ops < MaxOps
    /\ LET r == Invocation("sims", 0, "")
       IN /\ ops' = ops + 1
          /\ Answer(t, r, GetSims(sims, registered, alerts, activity))

\* ---------------------------------------------------------- the simulator
\* a swap branch that broadcasts the auto-lock alert first
SwapMessagesReversed(alert, auto_alert, was_locked) ==
    IF was_locked THEN <<AlertMsg(alert)>> ELSE <<AlertMsg(auto_alert), AlertMsg(alert)>>

\* the swap branch: the alerts it broadcasts, in the order of its broadcast calls
SwapMessages(alert, auto_alert, was_locked) ==
    IF was_locked THEN <<AlertMsg(alert)>> ELSE <<AlertMsg(alert), AlertMsg(auto_alert)>>

\* simulator_loop wakes from its sleep with choice < 0.6; i is random.choice's pick
GenSwap(i) ==
    /\ pc[Gen] = "idle"
    /\ ops < MaxOps
    /\ i \in 1 .. Len(sims)
    /\ LET r == Invocation("swap", sims[i].id, IF sims[i].locked THEN "locked" ELSE "unlocked")
           num == sims[i].number
           alert == AlertEntry(nextId + 1, "Suspicious SIM-swap attempt detected for {number}",
                               "warn", num)
           auto_alert == AlertEntry(nextId + 3, "Auto-locked {number} due to high risk",
                                    "danger", num)
           log1 == AddLog(activity, nextId,
                          "Suspicious SIM-swap attempt detected for {number}", num)
           alerts1 == AddAlert(alerts, alert.id, alert.text, alert.level, num)
       IN /\ ops' = ops + 1
          /\ UNCHANGED <<wpc, chan>>
          /\ registered' = registered
          /\ IF ~sims[i].locked
             THEN /\ sims' = [sims EXCEPT ![i].locked = TRUE,
                                          ![i].last = "Auto-locked on risk"]
                  /\ activity' = AddLog(log1, nextId + 2,
                                        "{number} auto-locked due to risk", num)
                  /\ alerts' = AddAlert(alerts1, auto_alert.id, auto_alert.text,
                                        auto_alert.level, num)
                  /\ nextId' = nextId + 4
                  /\ newest' = [alert |-> nextId + 3, log |-> nextId + 2]
                  /\ Begin(Gen, r, SwapMessages(alert, auto_alert, FALSE), active,
                           sims', registered')
             ELSE /\ sims' = sims
                  /\ activity' = log1
                  /\ alerts' = alerts1
                  /\ nextId' = nextId + 2
                  /\ newest' = [alert |-> nextId + 1, log |-> nextId]
                  /\ Begin(Gen, r, SwapMessages(alert, auto_alert, TRUE), active,
                           sims', registered')

\* simulator_loop wakes with choice >= 0.6; new_number and risk are its draws
GenNewReg(new_number, risk) ==
    /\ pc[Gen] = "idle"
    /\ ops < MaxOps
    /\ LET r == Invocation("newreg", nextId + 3, "")
           entry == [id |-> nextId, number |-> new_number, relation |-> "Unknown",
                     risk |-> risk]
           alert == AlertEntry(nextId + 2,
                       "New SIM {new_number} registered to your ID - auto-frozen pending review",
                       "danger", new_number)
           new_sim == [id |-> nextId + 3, number |-> new_number, locked |-> TRUE,
                       last |-> "Auto-locked on registration"]
           log1 == AddLog(activity, nextId + 1,
                          "New SIM {new_number} registered to your ID on remote ISP",
                          new_number)
       IN /\ ops' = ops + 1
          /\ UNCHANGED <<wpc, chan>>
          /\ registered' = <<entry>> \o registered
          /\ alerts' = AddAlert(alerts, alert.id, alert.text, alert.level, new_number)
          /\ sims' = <<new_sim>> \o sims
          /\ activity' = AddLog(log1, nextId + 4,
                                "Auto-added and locked {new_number} to local SIM list",
                                new_number)
          /\ nextId' = nextId + 5
          /\ newest' = [alert |-> nextId + 2, log |-> nextId + 4]
          /\ Begin(Gen, r, <<AlertMsg(alert), StateMsg>>, active, sims', registered')

\* ------------------------------------------------------------- websockets
\* a connect that registers the websocket before it awaits the accept
ConnectCallRegisters(act, w) == Append(act, w)

\* connect, up to its await of websocket.accept(): self.active is not touched
ConnectCall(act, w) == act

\* a connect that registers the websocket twice
ConnectResumeTwice(act, w) == Append(Append(act, w), w)

\* connect, after the accept
ConnectResume(act, w) == Append(act, w)

\* disconnect
Disconnect(act, w) == IF w \in Range(act) THEN Remove(act, w) ELSE act


InitEvent(payload) == [type |-> "init", payload |-> payload, call |-> 0]

\* a client opens /ws: websocket_endpoint starts and awaits the accept.
\* Websockets are numbered in the order they open.
WsOpen(w) ==
    /\ wpc[w] = "none"
    /\ \A v \in WS : v < w => wpc[v] # "none"
    /\ wpc' = [wpc EXCEPT ![w] = "accepting"]
    /\ active' = ConnectCall(active, w)
    /\ clean' = Touch(-1)
    /\ ret' = NoRet
    /\ UNCHANGED <<store, chan, inbox, frame, nextId, ghost>>

\* the accept returns: the websocket is registered and sent the init event, and
\* the endpoint awaits receive_text
WsAccepted(w) ==
    /\ wpc[w] = "accepting"
    /\ active' = ConnectResume(active, w)
    /\ inbox' = [inbox EXCEPT ![w] =
                    Append(@, InitEvent(InitPayload(sims, registered, alerts, activity)))]
    /\ wpc' = [wpc EXCEPT ![w] = "receiving"]
    /\ clean' = Touch(-1)
    /\ ret' = NoRet
    /\ UNCHANGED <<store, chan, frame, nextId, ghost>>

\* receive_text returns a keep-alive, the endpoint sleeps 0.01 s and awaits
\* receive_text again: two resumptions of the task that write nothing
WsReceive(w) ==
    /\ wpc[w] = "receiving"
    /\ chan[w] = "open"
    /\ clean' = Touch(-1)
    /\ ret' = NoRet
    /\ UNCHANGED <<store, active, wsvars, frame, nextId, ghost>>

\* receive_text raises WebSocketDisconnect: manager.disconnect, and the task ends
WsDisconnect(w) ==
    /\ wpc[w] = "receiving"
    /\ chan[w] = "closed"
    /\ active' = Disconnect(active, w)
    /\ wpc' = [wpc EXCEPT ![w] = "closed"]
    /\ clean' = Touch(-1)
    /\ ret' = NoRet
    /\ UNCHANGED <<store, chan, inbox, frame, nextId, ghost>>

\* the client of an established websocket goes away: sends to it fail from now on
ClientClose(w) ==
    /\ wpc[w] = "receiving"
    /\ chan[w] = "open"
    /\ chan' = [chan EXCEPT ![w] = "closed"]
    /\ clean' = Touch(-1)
    /\ ret' = NoRet
    /\ UNCHANGED <<store, active, wpc, inbox, frame, nextId, ghost>>

\* the client of an established websocket stops reading and never closes: a
\* send_json to it does not complete from now on
ClientHang(w) ==
    /\ wpc[w] = "receiving"
    /\ chan[w] = "open"
    /\ chan' = [chan EXCEPT ![w] = "hung"]
    /\ clean' = Touch(-1)
    /\ ret' = NoRet
    /\ UNCHANGED <<store, active, wpc, inbox, frame, nextId, ghost>>

\* ------------------------------------------------------------------ Next
\* Two explorations of the same tasks.  Next: every websocket, and the requests
\* that overlap on one sim.  NextCmd: every request, and one websocket.
BusSimIds == {825550102}
BusActions == {"lock", "unlock"}
BusSteps == {"freeze"}
BusTiers == {"High"}
CmdWS == {1}

Next ==
    \/ \E t \in Tasks, sim_id \in BusSimIds, action \in BusActions :
            TakeAction(t, sim_id, action)
    \/ \E t \in Tasks, sim_id \in BusSimIds, step \in BusSteps :
            Recovery(t, sim_id, step)
    \/ \E t \in Tasks, sim_id \in BusSimIds, tier \in BusTiers :
            RiskScore(t, sim_id, tier)
    \/ \E t \in Tasks : GetSimsQuery(t)
    \/ \E i \in 1 .. Len(sims) : GenSwap(i)
    \/ \E new_number \in NewNumbers, risk \in RegRisks : GenNewReg(new_number, risk)
    \/ \E p \in Procs : BroadcastStep(p)
    \/ \E w \in WS : WsOpen(w)
    \/ \E w \in WS : WsAccepted(w)
    \/ \E w \in WS : WsReceive(w)
    \/ \E w \in WS : WsDisconnect(w)
    \/ \E w \in WS : ClientClose(w)

NextCmd ==
    \/ \E t \in Tasks, sim_id \in SimIdInputs, action \in ActionInputs :
            TakeAction(t, sim_id, action)
    \/ \E t \in Tasks, sim_id \in SimIdInputs, step \in StepInputs :
            Recovery(t, sim_id, step)
    \/ \E t \in Tasks, sim_id \in SimIdInputs, tier \in RiskTiers :
            RiskScore(t, sim_id, tier)
    \/ \E t \in Tasks : GetSimsQuery(t)
    \/ \E i \in 1 .. Len(sims) : GenSwap(i)
    \/ \E new_number \in NewNumbers, risk \in RegRisks : GenNewReg(new_number, risk)
    \/ \E p \in Procs : BroadcastStep(p)
    \/ \E w \in CmdWS : WsOpen(w)
    \/ \E w \in CmdWS : WsAccepted(w)
    \/ \E w \in CmdWS : WsReceive(w)
    \/ \E w \in CmdWS : WsDisconnect(w)
    \/ \E w \in CmdWS : ClientClose(w)

Spec == Init /\ [][Next]_vars

SpecCmd == Init /\ [][NextCmd]_vars

SpecFull == InitFull /\ [][NextCmd]_vars

\* A third exploration, for what the tasks do in the end: every websocket, the
\* simulator, and one kind of request beside it.
LiveActions == {"unlock"}

NextLive ==
    \/ \E t \in Tasks, sim_id \in BusSimIds, action \in LiveActions :
            TakeAction(t, sim_id, action)
    \/ \E i \in 1 .. Len(sims) : GenSwap(i)
    \/ \E new_number \in NewNumbers, risk \in RegRisks : GenNewReg(new_number, risk)
    \/ \E p \in Procs : BroadcastStep(p)
    \/ \E w \in WS : WsOpen(w)
    \/ \E w \in WS : WsAccepted(w)
    \/ \E w \in WS : WsReceive(w)
    \/ \E w \in WS : WsDisconnect(w)
    \/ \E w \in WS : ClientClose(w)

\* NextLive, with clients that hang
NextHang ==
    \/ NextLive
    \/ \E w \in WS : ClientHang(w)

\* simulator_loop's sleep ends
Wake ==
    \/ \E i \in 1 .. Len(sims) : GenSwap(i)
    \/ \E new_number \in NewNumbers, risk \in RegRisks : GenNewReg(new_number, risk)

\* The event loop runs every task that is ready: one resumed by a send_json that
\* completed or raised, by the accept or by a disconnect notification; and the
\* simulator's sleep is finite.  Clients and callers owe nothing.
Fairness ==
    /\ \A p \in Procs : WF_vars(BroadcastStep(p))
    /\ \A w \in WS : WF_vars(WsAccepted(w))
    /\ \A w \in WS : WF_vars(WsDisconnect(w))
    /\ WF_vars(Wake)

SpecLive == Init /\ [][NextLive]_vars /\ Fairness

SpecHang == Init /\ [][NextHang]_vars /\ Fairness

\* ================================================================ claims
Last(xs) == xs[Len(xs)]

\* the events of broadcast call c among what client w has been sent
EventsOf(w, c) == {i \in 1 .. Len(inbox[w]) : inbox[w][i].call = c}

\* the recipients of p's broadcast whose channel is closed
Failing(p) == {w \in Range(rcpt[p]) : chan[w] = "closed"}

\* p's step ends the loop of its broadcast
EndsBroadcast(p) ==
    /\ pc[p] = "send"
    /\ idx[p] = Len(rcpt[p])
    /\ pc'[p] # "send" \/ callno'[p] # callno[p]

\* C1: a broadcast that nothing interleaves with, to subscribers of which exactly
\* one has a closed channel, has delivered its event once to each of the others
\* when its loop ends, leaves in manager.active the recipients but the closed one,
\* and goes on normally: no step answers with an exception or ends the simulator.
C1_Step ==
    /\ ret' # [exception |-> TRUE]
    /\ pc'[Gen] # "dead"
    /\ \A p \in Procs :
          (EndsBroadcast(p) /\ clean[p] /\ Cardinality(Failing(p)) = 1) =>
              /\ Range(active') = Range(rcpt[p]) \ Failing(p)
              /\ Len(active') = Len(rcpt[p]) - 1
              /\ \A w \in Range(rcpt[p]) \ Failing(p) :
                    /\ Cardinality(EventsOf(w, callno[p])) = 1
                    /\ Last(inbox[w]) =
                          Event(Render(msgs[p][1], sims, registered), callno[p])
              /\ \A w \in Failing(p) : EventsOf(w, callno[p]) = {}
              /\ Len(msgs[p]) = 1 => pc'[p] = "idle"

C1_IsolatesFailure == [][C1_Step]_vars

\* C1 witness: an undisturbed broadcast to two subscribers, one of them closed, has
\* made all its sends
C1_Witness ==
    \E p \in Procs :
        /\ pc[p] = "send"
        /\ clean[p]
        /\ Len(rcpt[p]) >= 2
        /\ idx[p] = Len(rcpt[p])
        /\ Cardinality(Failing(p)) = 1

\* C2: every client receives the events of broadcasts in the order of the
\* broadcast calls
C2_FifoPerSubscriber ==
    \A w \in WS : \A i, j \in 1 .. Len(inbox[w]) :
        (i < j /\ inbox[w][i].call > 0 /\ inbox[w][j].call > 0) =>
            inbox[w][i].call < inbox[w][j].call

NewestFirst(log) == \A i \in 1 .. Len(log) - 1 : log[i].id > log[i + 1].id

\* log2 is log with newer entries put at its head and entries cut from its tail
GrownAtHead(log, log2) ==
    \/ log2 = log
    \/ LET added == {i \in 1 .. Len(log2) : log = <<>> \/ log2[i].id > log[1].id}
           k == Cardinality(added)
       IN /\ added = 1 .. k
          /\ log2 = Prefix(SubSeq(log2, 1, k) \o log, LogCap)

LogsCapped ==
    /\ Len(alerts) <= LogCap
    /\ Len(activity) <= LogCap
    /\ NewestFirst(alerts)
    /\ NewestFirst(activity)
    /\ alerts # <<>> => alerts[1].id = newest.alert
    /\ activity # <<>> => activity[1].id = newest.log

\* C3: the alert log and the activity log never hold more than 200 entries, each is
\* ordered newest first with the entry created last at index 0, and a step changes
\* a log only by adding at its head and dropping from its tail.
C3_BoundedLogs ==
    /\ []LogsCapped
    /\ [][GrownAtHead(alerts, alerts') /\ GrownAtHead(activity, activity')]_vars

\* C3 witness: both logs are full and have dropped their oldest entries
C3_Witness ==
    /\ Len(alerts) = LogCap
    /\ Len(activity) = LogCap
    /\ alerts[LogCap].id > 0
    /\ activity[LogCap].id > 2

Absent(sim_id) == \A i \in 1 .. Len(sims) : sims[i].id # sim_id

\* the step writes to no collection, reaches no client and starts no broadcast
NoSideEffect == UNCHANGED <<store, active, inbox, ncalls, frame>>

\* C4: Lock, Unlock, any RecoveryStep and RiskScore for a sim id that no record
\* carries answer "SIM not found", leave the four collections as they were and
\* broadcast nothing.
C4_Step ==
    \A t \in Tasks, sim_id \in SimIdInputs :
        (/\ Absent(sim_id)
         /\ \/ \E action \in ActionInputs : TakeAction(t, sim_id, action)
            \/ \E step \in StepInputs : Recovery(t, sim_id, step)
            \/ \E tier \in RiskTiers : RiskScore(t, sim_id, tier))
        => (ret' = ErrNotFound /\ NoSideEffect)

C4_UnknownSim == [][C4_Step]_vars

\* C4 witness: a request is answered "SIM not found" after the logs have grown
C4_Witness == ret = ErrNotFound /\ activity # <<>>

LockLog(number) == LogEntry(1, "{number} locked via API", number)
UnlockLog(number) == LogEntry(3, "{number} unlocked via API", number)

\* C5, as claimed: from the seeded state, Lock and then Unlock of a sim leave its
\* locked flag as seeded.
C5_LockUnlockRestores ==
    \A i \in 1 .. Len(SeedSims) :
        activity = <<UnlockLog(SeedSims[i].number), LockLog(SeedSims[i].number)>>
        => sims[FindSim(sims, SeedSims[i].id)].locked = SeedSims[i].locked

\* C5, amended: Lock and then Unlock of a sim leave it unlocked, whatever the flag
\* was before (so as before only if it was unlocked), and put the Unlock's entry
\* over the Lock's at the head of the activity log, which stays capped.
C5_AfterLockUnlock ==
    \A i \in 1 .. Len(SeedSims) :
        activity = <<UnlockLog(SeedSims[i].number), LockLog(SeedSims[i].number)>>
        => ~sims[FindSim(sims, SeedSims[i].id)].locked

C5_Step ==
    \A t \in Tasks, sim_id \in SimIdInputs :
        LET i == FindSim(sims, sim_id)
        IN (/\ i # 0
            /\ activity # <<>>
            /\ activity[1].text = "{number} locked via API"
            /\ activity[1].number = sims[i].number
            /\ TakeAction(t, sim_id, "unlock"))
           => /\ ~sims'[i].locked
              /\ activity' = Prefix(<<LogEntry(nextId, "{number} unlocked via API",
                                               sims[i].number)>> \o activity, LogCap)

C5_LockThenUnlock == []C5_AfterLockUnlock /\ [][C5_Step]_vars

\* C5 witness: a sim seeded locked has been locked and then unlocked
C5_Witness ==
    /\ activity = <<UnlockLog("082 555 0101"), LockLog("082 555 0101")>>
    /\ ~sims[1].locked

\* C6: the init event a websocket is sent on connecting carries the four
\* collections as they stand when the websocket is added to manager.active, which
\* is what GET /sims answers at that moment; the step writes to none of them.
C6_Step ==
    \A w \in WS :
        (wpc[w] = "accepting" /\ wpc'[w] = "receiving") =>
            /\ active' = Append(active, w)
            /\ inbox'[w] # <<>>
            /\ Last(inbox'[w]).type = "init"
            /\ Last(inbox'[w]).payload = GetSims(sims, registered, alerts, activity)
            /\ Last(inbox'[w]).payload = GetSims(sims', registered', alerts', activity')

C6_InitIsSnapshot == [][C6_Step]_vars

\* C6 witness: a websocket that connected after a mutation, during a broadcast,
\* holds its init event
C6_Witness ==
    \E w \in WS, p \in Procs :
        /\ pc[p] = "send"
        /\ w \notin Range(rcpt[p])
        /\ Len(inbox[w]) = 1
        /\ inbox[w][1].payload.activity # <<>>

\* C7: the first event a client is sent is the init event, and no later one is:
\* every alert and state event comes after it.
C7_InitFirst ==
    \A w \in WS : \A i \in 1 .. Len(inbox[w]) : (inbox[w][i].type = "init") <=> (i = 1)

\* C7 witness: a websocket that connected while a broadcast was running has been
\* sent an event of another broadcast after its init event
C7_Witness ==
    \E w \in WS, p \in Procs :
        /\ pc[p] = "send"
        /\ w \notin Range(rcpt[p])
        /\ Len(inbox[w]) >= 2
        /\ inbox[w][2].type = "alert"

\* the recipients a broadcast in progress has sent to hold one event of it each,
\* those whose send failed and those not reached yet hold none
DeliveredOnce ==
    \A p \in Procs : pc[p] = "send" =>
        \A k \in 1 .. Len(rcpt[p]) :
            LET w == rcpt[p][k]
                got == EventsOf(w, callno[p])
            IN /\ Cardinality(got) = IF k <= idx[p] /\ w \in Range(living[p]) THEN 1 ELSE 0
               /\ \A i \in got : inbox[w][i].type = msgs[p][1].type
               /\ \A i \in got : msgs[p][1].type = "alert" =>
                                    inbox[w][i].payload = msgs[p][1].payload
               /\ (k <= idx[p] /\ w \notin Range(living[p])) => chan[w] = "closed"

\* task p makes the broadcast calls for ms, to everyone in manager.active
Broadcasts(p, ms) ==
    IF active = <<>>
    THEN ncalls' = ncalls + Len(ms) /\ inbox' = inbox
    ELSE ncalls' = ncalls + 1 /\ msgs'[p] = ms /\ rcpt'[p] = active

\* C8: Unlock of an unlocked sim (Lock of a locked one) leaves the flag as it was,
\* adds one activity entry and one alert of level warn (info), and makes one
\* broadcast call, for that alert, to all of manager.active; each recipient is sent
\* the alert event once unless its send fails.
C8_Step ==
    \A t \in Tasks, sim_id \in SimIdInputs, action \in {"lock", "unlock"} :
        LET i == FindSim(sims, sim_id)
            e == AlertEntry(nextId + 1,
                            IF action = "lock" THEN "SIM {number} locked by user"
                            ELSE "SIM {number} unlocked by user",
                            IF action = "lock" THEN "info" ELSE "warn",
                            sims[i].number)
        IN (/\ i # 0
            /\ sims[i].locked = (action = "lock")
            /\ TakeAction(t, sim_id, action))
           => /\ sims'[i].locked = sims[i].locked
              /\ Len(sims') = Len(sims)
              /\ Len(activity') = Min(Len(activity) + 1, LogCap)
              /\ SubSeq(activity', 2, Len(activity')) = Prefix(activity, LogCap - 1)
              /\ alerts' = Prefix(<<e>> \o alerts, LogCap)
              /\ Broadcasts(t, <<AlertMsg(e)>>)

C8_Idempotent == []DeliveredOnce /\ [][C8_Step]_vars

\* C8 witness: the broadcast of an Unlock of the sim seeded unlocked has reached
\* both subscribers
C8_Witness ==
    \E t \in Tasks :
        /\ pc[t] = "send"
        /\ req[t] = [cmd |-> "action", sim_id |-> 825550102, arg |-> "unlock"]
        /\ Len(activity) = 1
        /\ Len(living[t]) = 2
        /\ \A w \in Range(living[t]) : Last(inbox[w]).payload.level = "warn"

SwapText == "Suspicious SIM-swap attempt detected for {number}"
AutoLockText == "Auto-locked {number} due to high risk"

\* what the simulator will still broadcast in this wake is alerts only, and at the
\* end of a broadcast it goes on to the next of them
SwapBroadcastsInTurn ==
    /\ (pc[Gen] = "send" /\ req[Gen].cmd = "swap") =>
            \A k \in 1 .. Len(msgs[Gen]) : msgs[Gen][k].type = "alert"
    /\ (pc[Gen] = "send" /\ req[Gen].cmd = "swap" /\ req[Gen].arg = "locked") =>
            Len(msgs[Gen]) = 1

\* no client is sent the auto-lock alert of a wake before the swap alert of that wake
WarnBeforeDanger ==
    \A w \in WS : \A i, j \in 1 .. Len(inbox[w]) :
        (/\ i < j
         /\ inbox[w][i].type = "alert"
         /\ inbox[w][j].type = "alert"
         /\ inbox[w][i].payload.text = AutoLockText)
        => ~(/\ inbox[w][j].payload.text = SwapText
             /\ inbox[w][j].payload.id = inbox[w][i].payload.id - 2)

\* C9: a swap wake on a locked sim adds one alert, of level warn, makes one broadcast
\* call, for that alert, and leaves the sims as they were; on an unlocked sim it adds
\* the warn alert and over it a danger alert, sets the sim's flag, and makes two
\* broadcast calls, for the warn alert and then for the danger alert.  It never
\* broadcasts a state event, and no client gets the danger alert before the warn.
C9_Step ==
    /\ \A i \in 1 .. Len(sims) :
          LET warn == AlertEntry(nextId + 1, SwapText, "warn", sims[i].number)
              danger == AlertEntry(nextId + 3, AutoLockText, "danger", sims[i].number)
          IN GenSwap(i) =>
                IF sims[i].locked
                THEN /\ sims' = sims
                     /\ alerts' = Prefix(<<warn>> \o alerts, LogCap)
                     /\ Broadcasts(Gen, <<AlertMsg(warn)>>)
                ELSE /\ sims'[i].locked
                     /\ \A j \in 1 .. Len(sims) : j # i => sims'[j] = sims[j]
                     /\ alerts' = Prefix(<<danger, warn>> \o alerts, LogCap)
                     /\ Broadcasts(Gen, <<AlertMsg(warn), AlertMsg(danger)>>)
    /\ (EndsBroadcast(Gen) /\ req[Gen].cmd = "swap" /\ Len(msgs[Gen]) = 2) =>
          /\ active' = living[Gen]
          /\ IF living[Gen] = <<>>
             THEN ncalls' = ncalls + 1 /\ pc'[Gen] = "idle"
             ELSE /\ ncalls' = ncalls + 1
                  /\ msgs'[Gen] = Tail(msgs[Gen])
                  /\ rcpt'[Gen] = living[Gen]

C9_SwapAlerts == [](SwapBroadcastsInTurn /\ WarnBeforeDanger) /\ [][C9_Step]_vars

\* C9 witness: a client has been sent the warn alert and then the danger alert of
\* a swap wake on an unlocked sim
C9_Witness ==
    \E w \in WS : \E i, j \in 1 .. Len(inbox[w]) :
        /\ i < j
        /\ inbox[w][i].type = "alert"
        /\ inbox[w][j].type = "alert"
        /\ inbox[w][i].payload.level = "warn"
        /\ inbox[w][i].payload.text = SwapText
        /\ inbox[w][j].payload.level = "danger"
        /\ inbox[w][j].payload.id = inbox[w][i].payload.id + 2

\* C10: for a sim that exists, an action other than lock and unlock, and a step
\* that is none of the five, are answered with an error and change nothing: not
\* the collections, not manager.active, and nothing is broadcast.
C10_Step ==
    \A t \in Tasks, sim_id \in SimIdInputs :
        ~Absent(sim_id) =>
            /\ \A action \in ActionInputs \ {"lock", "unlock"} :
                  TakeAction(t, sim_id, action) =>
                      (ret' = ErrUnknownAction /\ NoSideEffect)
            /\ \A step \in StepInputs \ {"freeze", "reset", "notify-bank", "open-case",
                                          "police"} :
                  Recovery(t, sim_id, step) => (ret' = ErrUnknownStep /\ NoSideEffect)

C10_UnknownCommand == [][C10_Step]_vars

\* C10 witness: an unknown action is turned down after the logs have grown
C10_Witness == ret = ErrUnknownAction /\ activity # <<>>

\* a broadcast call of task p is in progress
InBroadcast(p) == pc[p] \in {"send", "blocked"}

BroadcastCalls == 1 .. 2 * MaxOps

\* C11: every broadcast in progress returns, and every recipient of it whose channel
\* is open is sent its event, also when another recipient's channel has hung.
C11_HungDoesNotStall ==
    /\ \A p \in Procs : InBroadcast(p) ~> (pc[p] = "idle")
    /\ \A p \in Procs, w \in WS, c \in BroadcastCalls :
          (InBroadcast(p) /\ callno[p] = c /\ w \in Range(rcpt[p]))
              ~> (EventsOf(w, c) # {} \/ chan[w] # "open")

NewRegText == "New SIM {new_number} registered to your ID - auto-frozen pending review"

LockAlertText == "SIM {number} locked by user"
UnlockAlertText == "SIM {number} unlocked by user"
FreezeAlertText == "Recovery: SIM {number} frozen via wizard"
RecoveryAlertTexts == {StepAlertText(step) : step \in RecoverySteps}

\* the activity entries written by the transition that raised alert e
LogsOf(e) ==
    CASE e.text = LockAlertText ->
            {LogEntry(e.id - 1, "{number} locked via API", e.number)}
      [] e.text = UnlockAlertText ->
            {LogEntry(e.id - 1, "{number} unlocked via API", e.number)}
      [] e.text \in RecoveryAlertTexts ->
            {LogEntry(e.id + 1,
                      StepLogText(CHOOSE step \in RecoverySteps :
                                      StepAlertText(step) = e.text),
                      e.number)}
      [] e.text = SwapText -> {LogEntry(e.id - 1, SwapText, e.number)}
      [] e.text = AutoLockText ->
            {LogEntry(e.id - 1, "{number} auto-locked due to risk", e.number)}
      [] e.text = NewRegText ->
            {LogEntry(e.id - 1,
                      "New SIM {new_number} registered to your ID on remote ISP",
                      e.number),
             LogEntry(e.id + 2, "Auto-added and locked {new_number} to local SIM list",
                      e.number)}
      [] OTHER -> {}

\* the alerts that tell of a write to the locked flag, and to the field last
FlagAlertTexts ==
    {LockAlertText, UnlockAlertText, FreezeAlertText, AutoLockText, NewRegText}

LastAlertTexts == {LockAlertText, UnlockAlertText, AutoLockText, NewRegText}

LastOf(text) ==
    CASE text = LockAlertText -> "Locked by user"
      [] text = UnlockAlertText -> "Unlocked by user"
      [] text = AutoLockText -> "Auto-locked on risk"
      [] text = NewRegText -> "Auto-locked on registration"

\* the newest alert of al about number whose text is in texts, 0 if there is none
NewestOf(al, number, texts) ==
    LET ks == {k \in 1 .. Len(al) : al[k].number = number /\ al[k].text \in texts}
    IN IF ks = {} THEN 0 ELSE CHOOSE k \in ks : \A j \in ks : k <= j

SeedOf(sim) == {i \in 1 .. Len(SeedSims) : SeedSims[i].id = sim.id}

\* The collections (ss, rg, al, ac) show every transition whole (logs below their
\* cap): each alert stands with the activity entries, the second alert and the
\* inserted records of its transition, each activity entry with its alert, and each
\* sim record is as the newest transition that wrote to it left it.
Untorn(ss, rg, al, ac) ==
    /\ \A k \in 1 .. Len(al) : LogsOf(al[k]) \subseteq Range(ac)
    /\ \A l \in Range(ac) : \E k \in 1 .. Len(al) : l \in LogsOf(al[k])
    /\ \A k \in 1 .. Len(al) :
          /\ al[k].text = AutoLockText =>
                \E j \in 1 .. Len(al) : /\ al[j].id = al[k].id - 2
                                         /\ al[j].text = SwapText
                                         /\ al[j].number = al[k].number
          /\ al[k].text = NewRegText =>
                /\ \E j \in 1 .. Len(rg) : /\ rg[j].id = al[k].id - 2
                                            /\ rg[j].number = al[k].number
                /\ \E j \in 1 .. Len(ss) : /\ ss[j].id = al[k].id + 1
                                            /\ ss[j].number = al[k].number
    /\ LET n == Cardinality({k \in 1 .. Len(al) : al[k].text = NewRegText})
       IN Len(ss) = Len(SeedSims) + n /\ Len(rg) = Len(SeedRegistered) + n
    /\ \A i \in 1 .. Len(ss) :
          LET f == NewestOf(al, ss[i].number, FlagAlertTexts)
              t == NewestOf(al, ss[i].number, LastAlertTexts)
          IN /\ IF f = 0
                THEN \E j \in SeedOf(ss[i]) : ss[i].locked = SeedSims[j].locked
                ELSE ss[i].locked = (al[f].text # UnlockAlertText)
             /\ IF t = 0
                THEN \E j \in SeedOf(ss[i]) : ss[i].last = SeedSims[j].last
                ELSE ss[i].last = LastOf(al[t].text)

IsSnapshot(val) == DOMAIN val = {"sims", "registered", "alerts", "activity"}

GetsAlert(w) ==
    /\ Len(inbox'[w]) = Len(inbox[w]) + 1
    /\ Last(inbox'[w]).type = "alert"

\* C14: when a client is sent the alert event of entry e, e is in the alert log
\* (it was before the step, if the step resumes a broadcast), with the activity
\* entries of its transition; the record is as that transition left it unless a
\* newer transition wrote to it, and the records a new registration inserted are
\* there: GET /sims at that moment answers with all of it.
C14_Step ==
    \A w \in WS : GetsAlert(w) =>
        LET e == Last(inbox'[w]).payload
            q == GetSims(sims', registered', alerts', activity')
        IN /\ e \in Range(q.alerts)
           /\ (\E p \in Procs : BroadcastStep(p)) => e \in Range(alerts)
           /\ LogsOf(e) \subseteq Range(q.activity)
           /\ \A i \in 1 .. Len(q.sims) :
                 LET f == NewestOf(q.alerts, q.sims[i].number, FlagAlertTexts)
                 IN (f # 0 /\ q.alerts[f] = e) =>
                        q.sims[i].locked = (e.text # UnlockAlertText)
           /\ e.text = NewRegText =>
                 /\ \E j \in 1 .. Len(q.registered) : q.registered[j].id = e.id - 2
                 /\ \E j \in 1 .. Len(q.sims) : q.sims[j].id = e.id + 1

C14_MutationBeforeEvent == [][C14_Step]_vars

\* C14 witness: a client holds the alert event of a transition that locked a sim,
\* whose broadcast is still in progress
C14_Witness ==
    \E w \in WS, p \in Procs :
        /\ pc[p] = "send"
        /\ inbox[w] # <<>>
        /\ Last(inbox[w]).type = "alert"
        /\ Last(inbox[w]).call = callno[p]
        /\ Last(inbox[w]).payload.text \in FlagAlertTexts \ {UnlockAlertText}

\* websocket w's disconnect has been processed: manager.disconnect ran, the
\* endpoint's task is over
Closed(w) == wpc[w] = "closed"

\* C15: a websocket whose disconnect has been processed is not in manager.active,
\* and no broadcast call made from then on has it among its recipients.
C15_ClosedIsTerminal ==
    /\ [](\A w \in WS : Closed(w) => w \notin Range(active))
    /\ [][\A w \in WS, p \in Procs :
            (Closed(w) /\ callno'[p] # callno[p]) => w \notin Range(rcpt'[p])]_vars

\* C16: the end of a broadcast takes out of manager.active only recipients of that
\* broadcast whose send failed in it; so a websocket that was added while the
\* broadcast was in progress is still there when it ends.
C16_Step ==
    \A p \in Procs : EndsBroadcast(p) =>
        \A w \in Range(active) \ Range(active') :
            w \in Range(rcpt[p]) \ Range(living[p])

C16_JoinerKept == [][C16_Step]_vars

\* the response of a take_action that served a lock or an unlock
IsActionResult(val) == DOMAIN val = {"status", "sim"}

\* C17: the response of a Lock carries status "locked" and the record with its
\* flag set, the response of an Unlock status "unlocked" and the record with its
\* flag clear.
C17_ResultMatchesCommand ==
    IsActionResult(ret) =>
        /\ ret.status \in {"locked", "unlocked"}
        /\ ret.sim.locked = (ret.status = "locked")

\* this step sends client w a state event
GetsState(w) ==
    /\ Len(inbox'[w]) = Len(inbox[w]) + 1
    /\ Last(inbox'[w]).type = "state"

\* in a new-registration wake the simulator broadcasts the alert, then the state
NewRegBroadcastsInTurn ==
    (InBroadcast(Gen) /\ req[Gen].cmd = "newreg") =>
        \/ /\ Len(msgs[Gen]) = 2
           /\ msgs[Gen][1].type = "alert"
           /\ msgs[Gen][1].payload.text = NewRegText
           /\ msgs[Gen][2] = StateMsg
        \/ msgs[Gen] = <<StateMsg>>

\* C18: a new-registration wake puts one record at the head of registered and one
\* at the head of sims, with the same number, the sim locked, and leaves the other
\* records as they were; it adds one alert, of level danger; it makes a broadcast
\* call for that alert and then one for a state event, and the state event a
\* client is sent carries sims and registered with both new records.
C18_Step ==
    /\ \A new_number \in NewNumbers, risk \in RegRisks :
          GenNewReg(new_number, risk) =>
              /\ Len(registered') = Len(registered) + 1
              /\ Tail(registered') = registered
              /\ registered'[1].number = new_number
              /\ Len(sims') = Len(sims) + 1
              /\ Tail(sims') = sims
              /\ sims'[1].number = new_number
              /\ sims'[1].locked
              /\ Len(alerts') = Min(Len(alerts) + 1, LogCap)
              /\ Tail(alerts') = Prefix(alerts, LogCap - 1)
              /\ alerts'[1].level = "danger"
              /\ alerts'[1].id \notin {alerts[k].id : k \in 1 .. Len(alerts)}
              /\ Broadcasts(Gen, <<AlertMsg(alerts'[1]), StateMsg>>)
    /\ (EndsBroadcast(Gen) /\ req[Gen].cmd = "newreg" /\ Len(msgs[Gen]) = 2) =>
          /\ active' = living[Gen]
          /\ ncalls' = ncalls + 1
          /\ IF living[Gen] = <<>>
             THEN pc'[Gen] = "idle"
             ELSE msgs'[Gen] = <<StateMsg>> /\ rcpt'[Gen] = living[Gen]
    /\ \A w \in WS : GetsState(w) =>
          LET v == Last(inbox'[w]).payload
              r == IF req[Gen].cmd = "newreg" THEN req[Gen] ELSE req'[Gen]
          IN /\ r.cmd = "newreg"
             /\ DOMAIN v = {"sims", "registered"}
             /\ v.sims = sims' /\ v.registered = registered'
             /\ \E i \in 1 .. Len(v.sims), j \in 1 .. Len(v.registered) :
                   /\ v.sims[i].id = r.sim_id
                   /\ v.sims[i].locked
                   /\ v.registered[j].id = r.sim_id - 3
                   /\ v.registered[j].number = v.sims[i].number

C18_NewRegistration == []NewRegBroadcastsInTurn /\ [][C18_Step]_vars

\* C18 witness: a client has been sent the alert of a new registration and then
\* the state event with the new sim at the head
C18_Witness ==
    \E w \in WS : \E i, j \in 1 .. Len(inbox[w]) :
        /\ i < j
        /\ inbox[w][i].type = "alert"
        /\ inbox[w][i].payload.text = NewRegText
        /\ inbox[w][j].type = "state"
        /\ inbox[w][j].payload.sims[1].id = inbox[w][i].payload.id + 1
        /\ inbox[w][j].payload.registered[1].id = inbox[w][i].payload.id - 2

Ids(log) == {log[k].id : k \in 1 .. Len(log)}

\* log2 is log with one new entry at its head, cut to the cap
OneAdded(log, log2) ==
    /\ Len(log2) = Min(Len(log) + 1, LogCap)
    /\ Tail(log2) = Prefix(log, LogCap - 1)
    /\ log2[1].id \notin Ids(log)

\* C19: for a sim that exists, step freeze sets the sim's locked flag and writes
\* nothing else to the records; reset, notify-bank, open-case and police leave sims
\* as it was; no step writes to registered; each of the five adds one activity
\* entry and one alert, of level danger for open-case and police and info or warn
\* for the others, and makes one broadcast call, for that alert.
C19_Step ==
    \A t \in Tasks, sim_id \in SimIdInputs, step \in RecoverySteps :
        LET i == FindSim(sims, sim_id)
        IN (i # 0 /\ Recovery(t, sim_id, step)) =>
              /\ registered' = registered
              /\ IF step = "freeze"
                 THEN sims' = [sims EXCEPT ![i].locked = TRUE]
                 ELSE sims' = sims
              /\ OneAdded(activity, activity')
              /\ activity'[1].number = sims[i].number
              /\ OneAdded(alerts, alerts')
              /\ alerts'[1].number = sims[i].number
              /\ alerts'[1].level \in IF step \in {"open-case", "police"}
                                      THEN {"danger"}
                                      ELSE {"info", "warn"}
              /\ Broadcasts(t, <<AlertMsg(alerts'[1])>>)

C19_RecoverySteps == [][C19_Step]_vars

\* C19 witness: after a freeze of the sim seeded unlocked, the alert of a police
\* step is being broadcast
C19_Witness ==
    \E t \in Tasks :
        /\ pc[t] = "send"
        /\ req[t].cmd = "recovery"
        /\ req[t].arg = "police"
        /\ alerts[1].level = "danger"
        /\ Len(alerts) = 3
        /\ alerts[2].text = FreezeAlertText
        /\ sims[2].locked

\* the positions of the alert events in what client w has been sent
AlertEvents(w) == {k \in 1 .. Len(inbox[w]) : inbox[w][k].type = "alert"}

\* C20: no alert event a client is sent carries an entry that was in the alert log
\* of its init event, and no two alert events it is sent carry the same entry.
C20_NoAlertTwice ==
    \A w \in WS :
        /\ \A k \in AlertEvents(w) :
              /\ inbox[w][1].type = "init"
              /\ inbox[w][k].payload.id \notin Ids(inbox[w][1].payload.alerts)
        /\ \A j, k \in AlertEvents(w) :
              j # k => inbox[w][j].payload.id # inbox[w][k].payload.id

\* C20 witness: a websocket that connected during the first broadcast of a swap
\* wake on an unlocked sim, so that its init event holds both alerts of the wake,
\* has since been sent an alert event, while the wake's broadcasts go on
C20_Witness ==
    \E w \in WS :
        /\ InBroadcast(Gen)
        /\ req[Gen].cmd = "swap"
        /\ req[Gen].arg = "unlocked"
        /\ w \notin Range(rcpt[Gen])
        /\ Len(inbox[w]) >= 2
        /\ inbox[w][1].type = "init"
        /\ \E k \in 1 .. Len(inbox[w][1].payload.alerts) :
              /\ inbox[w][1].payload.alerts[k].text = AutoLockText
              /\ inbox[w][1].payload.alerts[k].id = newest.alert - 2
        /\ inbox[w][2].type = "alert"

====
